---- MODULE Spec2Model ----
(***************************************************************************)
(* The rate-limited LLM request broker of services/llm_connector.py:       *)
(* callers enqueue (func, args, kwargs, future) jobs with send_llm_request *)
(* and await the future; the single llm_worker task dequeues one job at a  *)
(* time, waits for room in the 60-second window of send timestamps, calls  *)
(* the downstream service and resolves the job's future.                   *)
(*                                                                         *)
(* Time is in whole seconds.  The worker runs on an asyncio event loop, so *)
(* the code between two awaits is atomic; the worker's positions are its   *)
(* await points and the statements the claims name.                        *)
(***************************************************************************)
EXTENDS Integers, Sequences, FiniteSets

\* ---- bounds of the model ----
LLM_RATE_LIMIT == 2      \* config.LLM_RATE_LIMIT (imported, set by deployment)
MaxJobs == 4             \* submissions per run
MaxTime == 90            \* the clock stops advancing here
MaxSessions == 3         \* concurrent add_feedback requests

\* ---- program constants ----
WINDOW_SECS == 60        \* llm_connector.py:25,30
SLEEP_SECS == 1          \* llm_connector.py:27
QUEUE_MAXSIZE == 0       \* llm_connector.py:15, asyncio.Queue() default

\* Seconds that may pass while the worker is suspended on the queue or in
\* the downstream call (time.time() is assumed not to run backwards).
ElapseSteps == {20, 59}

Jobs == 1..MaxJobs

\* What the downstream endpoint does with one POST (_send_request):
\* a 2xx JSON answer, a non-success status, or no answer at all.
Responses == {"json_2xx", "status_503", "transport_error"}
Failures == {"status_503", "transport_error"}

NoJob == [func |-> "none", args |-> 0, future |-> 0]
NoValue == [kind |-> "none", of |-> 0]

VARIABLES
    clock,                    \* time.time()
    llm_queue,                \* asyncio.Queue: sequence of job tuples
    llm_request_timestamps,   \* deque of admission timestamps
    futures,                  \* the futures created by send_llm_request
    pc,                       \* position of llm_worker
    cur,                      \* the tuple llm_worker unpacked at line 22
    now,                      \* llm_worker's local `now`
    inflight,                 \* payloads of downstream calls not yet returned
    submitted,                \* number of send_llm_request calls so far
    enqueued,                 \* history: payloads in the order they were put
    sent,                     \* history: downstream sends, [job, ts], in order
    responses,                \* history: what the downstream did per payload
    checked,                  \* history: the window the loop condition last read
    specWindow,               \* the window of the limiter as specified, in lockstep
    feedback_rows,            \* committed rows of the feedback table (one pair)
    sessions                  \* the database sessions running add_feedback

histVars == <<checked, specWindow>>
dbVars == <<feedback_rows, sessions>>

vars == <<clock, llm_queue, llm_request_timestamps, futures, pc, cur, now,
          inflight, submitted, enqueued, sent, responses, histVars, dbVars>>

\* ---- the sliding-window limiter (llm_worker, lines 25-33) ----

\* line 25, left operand of `and`: only when it is true is
\* llm_request_timestamps[0] evaluated
ReadsOldest_always(w) ==
    TRUE

ReadsOldest(w) ==
    Len(w) >= LLM_RATE_LIMIT

\* line 25: the condition of the back-off loop
MustWait_offbyone(w, n) ==
    Len(w) > LLM_RATE_LIMIT /\ n - w[1] < WINDOW_SECS

MustWait_sizeOnly(w, n) ==
    Len(w) >= LLM_RATE_LIMIT

MustWait(w, n) ==
    ReadsOldest(w) /\ n - w[1] < WINDOW_SECS

\* lines 30-31: popleft while the oldest timestamp is 60 s old or older
Evict_none(w, n) ==
    w

Evict_onlyOne(w, n) ==
    IF w # <<>> /\ n - Head(w) >= WINDOW_SECS THEN Tail(w) ELSE w

RECURSIVE Evict(_, _)
Evict(w, n) ==
    IF w # <<>> /\ n - Head(w) >= WINDOW_SECS THEN Evict(Tail(w), n) ELSE w

\* line 25: the loop condition reads the deque as it stands; nothing has
\* been evicted when it is evaluated
DecisionWindow_evicted(w, n) ==
    Evict(w, n)

DecisionWindow(w, n) ==
    w

\* lines 30-33: evict, then append the admission timestamp
Admit_noEvict(w, n) ==
    Append(w, n)

Admit(w, n) ==
    Append(Evict(w, n), n)

\* lines 39-42: neither the except clause nor the finally clause touches
\* llm_request_timestamps, whatever the call did
WindowAfterCall_refund(w, r) ==
    IF r = "json_2xx" THEN w ELSE SubSeq(w, 1, Len(w) - 1)

WindowAfterCall(w, r) ==
    w

\* The limiter as specified: evict first, then wait if the window is still
\* full and its oldest entry fresh, otherwise append.  One pass at time n.
\* It has its own eviction, written from the specification's step 1.
RECURSIVE SpecEvict(_, _)
SpecEvict(w, n) ==
    IF w # <<>> /\ n - Head(w) >= WINDOW_SECS THEN SpecEvict(Tail(w), n) ELSE w

SpecLimiter(w, n) ==
    LET e == SpecEvict(w, n)
        wait == Len(e) >= LLM_RATE_LIMIT /\ n - e[1] < WINDOW_SECS
    IN  [wait |-> wait, window |-> IF wait THEN e ELSE Append(e, n)]

\* ---- the queue and the futures ----

\* asyncio.Queue.full: a queue built with maxsize <= 0 is never full
QueueFull_bounded(q) ==
    Len(q) >= 1

QueueFull(q) ==
    IF QUEUE_MAXSIZE <= 0 THEN FALSE ELSE Len(q) >= QUEUE_MAXSIZE

\* asyncio.Queue.get on a non-empty queue: the oldest item leaves the queue
QueueGet_lifo(q) ==
    [item |-> q[Len(q)], rest |-> SubSeq(q, 1, Len(q) - 1)]

QueueGet_dropCancelled(q) ==
    LET live == SelectSeq(q, LAMBDA j : futures[j.future].state # "cancelled")
    IN  IF live = <<>>
        THEN [item |-> Head(q), rest |-> Tail(q)]
        ELSE [item |-> Head(live), rest |-> Tail(live)]

QueueGet_peek(q) ==
    [item |-> Head(q), rest |-> q]

QueueGet(q) ==
    [item |-> Head(q), rest |-> Tail(q)]

\* line 22: the worker may take a job only when it awaits llm_queue.get()
WorkerReady_pooled ==
    pc \in {"idle", "sending"}

WorkerReady ==
    pc = "idle"

\* line 22: the future the worker resolves is the one unpacked from the job
FutureOf_oldestPending(job) ==
    IF \E k \in Jobs : futures[k].state = "pending"
    THEN CHOOSE k \in Jobs : futures[k].state = "pending"
                             /\ \A j \in Jobs : futures[j].state = "pending" => k <= j
    ELSE job.future

FutureOf(job) ==
    job.future

\* line 37: the call is made with the job's own arguments
CallArgs_latest(job) ==
    submitted

CallArgs(job) ==
    job.args

\* _send_request (lines 56-59): the outcome of one call for payload p
\* when the downstream does r
Outcome(p, r) ==
    IF r = "json_2xx"
    THEN [state |-> "result", value |-> [kind |-> r, of |-> p]]
    ELSE [state |-> "exception", value |-> [kind |-> r, of |-> p]]

Pending == [state |-> "pending", value |-> NoValue]
Cancelled == [state |-> "cancelled", value |-> NoValue]
NotCreated == [state |-> "none", value |-> NoValue]

Resolved(k) == futures[k].state \in {"result", "exception"}

InQueue(k) == \E i \in DOMAIN llm_queue : llm_queue[i].args = k

\* ---- the feedback table (databases/models.py, Feedback) ----
Sessions == 1..MaxSessions

NoRow == [id |-> 0, count |-> 0]

\* no Feedback row yet, no request running
DbInit ==
    /\ feedback_rows = <<>>
    /\ sessions = [s \in Sessions |-> [pc |-> "start", feedback |-> NoRow]]

\* ---- initial state: module import, then start_llm_worker ----
Init ==
    /\ clock = 0
    /\ llm_queue = <<>>
    /\ llm_request_timestamps = <<>>
    /\ futures = [k \in Jobs |-> NotCreated]
    /\ pc = "idle"
    /\ cur = NoJob
    /\ now = 0
    /\ inflight = {}
    /\ submitted = 0
    /\ enqueued = <<>>
    /\ sent = <<>>
    /\ responses = [k \in Jobs |-> "none"]
    /\ checked = <<>>
    /\ specWindow = <<>>
    /\ DbInit

\* ---- callers ----

\* send_llm_request, lines 50-52: create the future and put the job; the
\* queue is unbounded, so put never suspends.  The caller then awaits.
Submit ==
    /\ submitted < MaxJobs
    /\ ~QueueFull(llm_queue)
    /\ LET k == submitted + 1 IN
        /\ submitted' = k
        /\ futures' = [futures EXCEPT ![k] = Pending]
        /\ llm_queue' = Append(llm_queue,
                               [func |-> "_send_request", args |-> k, future |-> k])
        /\ enqueued' = Append(enqueued, k)
    /\ UNCHANGED <<clock, llm_request_timestamps, pc, cur, now, inflight,
                   sent, responses, histVars, dbVars>>

\* line 53: the task awaiting the future is cancelled (the caller abandons
\* its await); asyncio cancels the future the task is waiting on.
Cancel(k) ==
    /\ futures[k].state = "pending"
    /\ futures' = [futures EXCEPT ![k] = Cancelled]
    /\ UNCHANGED <<clock, llm_queue, llm_request_timestamps, pc, cur, now,
                   inflight, submitted, enqueued, sent, responses, histVars,
                   dbVars>>

\* ---- llm_worker ----

\* line 22: await llm_queue.get()
Dequeue ==
    /\ WorkerReady
    /\ llm_queue # <<>>
    /\ cur' = QueueGet(llm_queue).item
    /\ llm_queue' = QueueGet(llm_queue).rest
    /\ pc' = "dequeued"
    /\ UNCHANGED <<clock, llm_request_timestamps, futures, now, inflight,
                   submitted, enqueued, sent, responses, histVars, dbVars>>

\* line 23: now = time.time()
ReadClock ==
    /\ pc = "dequeued"
    /\ now' = clock
    /\ pc' = "ratecheck"
    /\ UNCHANGED <<clock, llm_queue, llm_request_timestamps, futures, cur,
                   inflight, submitted, enqueued, sent, responses, histVars,
                   dbVars>>

\* lines 25-27: the window is full and its oldest entry is fresh: sleep
BackOff ==
    /\ pc = "ratecheck"
    /\ MustWait(DecisionWindow(llm_request_timestamps, now), now)
    /\ checked' = DecisionWindow(llm_request_timestamps, now)
    /\ specWindow' = SpecLimiter(specWindow, now).window
    /\ pc' = "backoff"
    /\ UNCHANGED <<clock, llm_queue, llm_request_timestamps, futures, cur, now,
                   inflight, submitted, enqueued, sent, responses, dbVars>>

\* lines 27-28: asyncio.sleep(1) elapses, now = time.time()
Wake ==
    /\ pc = "backoff"
    /\ clock + SLEEP_SECS <= MaxTime
    /\ clock' = clock + SLEEP_SECS
    /\ now' = clock'
    /\ pc' = "ratecheck"
    /\ UNCHANGED <<llm_queue, llm_request_timestamps, futures, cur, inflight,
                   submitted, enqueued, sent, responses, histVars, dbVars>>

\* lines 25, 30-37: the loop exits, stale entries are evicted, the timestamp
\* is appended and the downstream call starts
Send ==
    /\ pc = "ratecheck"
    /\ ~MustWait(DecisionWindow(llm_request_timestamps, now), now)
    /\ checked' = DecisionWindow(llm_request_timestamps, now)
    /\ specWindow' = SpecLimiter(specWindow, now).window
    /\ llm_request_timestamps' = Admit(llm_request_timestamps, now)
    /\ sent' = Append(sent, [job |-> CallArgs(cur), ts |-> now])
    /\ inflight' = inflight \cup {CallArgs(cur)}
    /\ pc' = "sending"
    /\ UNCHANGED <<clock, llm_queue, futures, cur, now, submitted, enqueued,
                   responses, dbVars>>

\* lines 37-42: the call returns or raises.  set_result / set_exception on a
\* future that is not pending raises InvalidStateError: raised by set_result
\* it is caught by `except Exception` and set_exception raises it again, out
\* of the handler, which ends the worker task.
Respond(r) ==
    /\ pc = "sending"
    /\ \E p \in inflight :
        /\ inflight' = inflight \ {p}
        /\ responses' = [responses EXCEPT ![p] = r]
        /\ IF futures[FutureOf(cur)].state = "pending"
           THEN /\ futures' = [futures EXCEPT ![FutureOf(cur)] = Outcome(p, r)]
                /\ pc' = "idle"
           ELSE /\ futures' = futures
                /\ pc' = "dead"
    /\ llm_request_timestamps' = WindowAfterCall(llm_request_timestamps, r)
    /\ checked' = <<>>
    /\ UNCHANGED <<clock, llm_queue, cur, now, submitted, enqueued, sent,
                   specWindow, dbVars>>

\* ---- the clock ----
Tick(d) ==
    /\ pc \in {"idle", "sending"}
    /\ clock + d <= MaxTime
    /\ clock' = clock + d
    /\ UNCHANGED <<llm_queue, llm_request_timestamps, futures, pc, cur, now,
                   inflight, submitted, enqueued, sent, responses, histVars,
                   dbVars>>

Next ==
    \/ Submit
    \/ \E k \in Jobs : Cancel(k)
    \/ Dequeue
    \/ ReadClock
    \/ BackOff
    \/ Wake
    \/ Send
    \/ \E r \in Responses : Respond(r)
    \/ \E d \in ElapseSteps : Tick(d)

Spec == Init /\ [][Next]_vars

\* ---- derived notions used by the properties ----

\* number of downstream sends made for payload k
SendCount(k) == Cardinality({i \in DOMAIN sent : sent[i].job = k})

\* downstream sends admitted in the trailing window (t - 60, t]
SendsInWindow(t) ==
    {i \in DOMAIN sent : t - WINDOW_SECS < sent[i].ts /\ sent[i].ts <= t}

\* jobs the worker has taken from the queue and not resolved
Owned == {k \in Jobs : k <= submitted /\ ~InQueue(k) /\ ~Resolved(k)}

\* the state of job k in the per-job state machine of the worker
Phase(k) ==
    IF k > submitted THEN "NotSubmitted"
    ELSE IF InQueue(k) THEN "Queued"
    ELSE IF futures[k].state = "result" THEN "Completed"
    ELSE IF futures[k].state = "exception" THEN "Failed"
    ELSE IF cur.args = k /\ pc = "dequeued" THEN "Dequeued"
    ELSE IF cur.args = k /\ pc \in {"ratecheck", "backoff"} THEN "RateCheck"
    ELSE "Sending"

PhaseOrder ==
    {<<"NotSubmitted", "Queued">>, <<"Queued", "Dequeued">>,
     <<"Dequeued", "RateCheck">>, <<"RateCheck", "Sending">>,
     <<"Sending", "Completed">>, <<"Sending", "Failed">>}

\* ---- C1 ----
\* C1: at every time t, at most LLM_RATE_LIMIT downstream sends have their
\* admission timestamp in the trailing interval (t - 60, t].
C1_RateBound ==
    \A t \in 0..MaxTime : Cardinality(SendsInWindow(t)) <= LLM_RATE_LIMIT

\* more sends than the limit were made, the last one admitted after a
\* back-off that ended when the window had room again
C1_Witness ==
    /\ Len(sent) > LLM_RATE_LIMIT
    /\ pc = "sending"
    /\ sent[Len(sent)].ts - sent[1].ts = WINDOW_SECS
    /\ Cardinality(SendsInWindow(clock)) = LLM_RATE_LIMIT

\* ---- C2 ----
\* C2: the downstream sends are made in exactly the order in which the jobs
\* were enqueued: the i-th send is the i-th enqueued job, so no job is
\* skipped or overtaken, also while the head job waits in back-off.
C2_Fifo ==
    /\ Len(sent) <= Len(enqueued)
    /\ \A i \in DOMAIN sent : sent[i].job = enqueued[i]

\* a job was sent after waiting in back-off while a later job was queued
\* behind it
C2_Witness ==
    /\ pc = "sending"
    /\ Len(sent) > LLM_RATE_LIMIT
    /\ sent[Len(sent)].ts >= sent[1].ts + WINDOW_SECS
    /\ sent[Len(sent)].ts > clock - SLEEP_SECS
    /\ llm_queue # <<>>

\* ---- C3 ----
\* C3 (as claimed): whenever a job's send raises, the exception becomes the
\* failure outcome of that job's future and the worker goes back to waiting
\* on the queue.
C3_FailureCaught ==
    [][\A k \in Jobs :
          (responses[k] = "none" /\ responses'[k] \in Failures)
              => (futures'[k] = Outcome(k, responses'[k]) /\ pc' = "idle")]_vars

\* ---- C4 ----
\* C4 (as claimed): a caller cancelling its await on job k never aborts the
\* worker: once the worker has finished job k's call it is still running.
C4_CancelKeepsWorker ==
    \A k \in Jobs :
        (futures[k].state = "cancelled" /\ responses[k] # "none") => pc # "dead"

\* ---- C5 ----
\* C5 (as claimed): no submitted job stays unresolved forever.  A state in
\* which a caller still awaits a future that holds neither a result nor an
\* exception and the worker task has ended is one that job can never
\* leave, so the claim requires that no such state is reached.
C5_NoJobLeftUnresolved ==
    \A k \in Jobs :
        (k <= submitted /\ futures[k].state = "pending") => pc # "dead"

\* ---- C6 ----
\* C6 (as claimed): if job k's downstream call fails, job k+1 is still
\* dequeued and sent afterwards (it is not left behind by a worker that has
\* ended), and it resolves to success when its own call succeeds.
C6_NextJobStillServed ==
    \A k \in Jobs :
        (k + 1 <= submitted /\ responses[k] \in Failures) =>
            /\ (SendCount(k + 1) = 0 => pc # "dead")
            /\ (responses[k + 1] = "json_2xx" /\ futures[k + 1].state # "cancelled"
                    => futures[k + 1] = Outcome(k + 1, "json_2xx"))

\* ---- C7 ----
\* C7: a future is resolved only after its job has left the queue and its
\* send was made, and a future that holds an outcome never changes again.
C7_ResolvedOnce ==
    /\ [](\A k \in Jobs : Resolved(k) => (~InQueue(k) /\ SendCount(k) >= 1))
    /\ [][\A k \in Jobs : Resolved(k) => futures'[k] = futures[k]]_vars

\* a resolved job's future has stayed as it was while the worker went on
\* to resolve the next job
C7_Witness ==
    /\ submitted >= 2
    /\ futures[1].state = "exception"
    /\ futures[2].state = "result"
    /\ llm_queue # <<>>

\* ---- C8 ----
\* C8: a future that holds an outcome holds the outcome of its own job's
\* downstream call, and the outcome of a call whose caller still awaits is
\* in that job's future.
C8_OwnOutcome ==
    \A k \in Jobs :
        /\ Resolved(k) => (responses[k] # "none" /\ futures[k] = Outcome(k, responses[k]))
        /\ (responses[k] # "none" /\ futures[k].state # "cancelled")
               => futures[k] = Outcome(k, responses[k])

\* two jobs with different downstream outcomes, each in its own future,
\* while a third job's future is still pending
C8_Witness ==
    /\ submitted >= 3
    /\ futures[1] = Outcome(1, "json_2xx")
    /\ futures[2] = Outcome(2, "status_503")
    /\ futures[3].state = "pending"

\* ---- C9 ----
\* C9: no job is sent twice, and a job whose future is resolved has been
\* sent (exactly once).
C9_OneAttempt ==
    \A k \in Jobs :
        /\ SendCount(k) <= 1
        /\ Resolved(k) => SendCount(k) = 1

\* a job failed and was not retried: the worker has moved on to the next job
C9_Witness ==
    /\ futures[1].state = "exception"
    /\ SendCount(1) = 1
    /\ SendCount(2) = 1
    /\ pc = "sending"

\* ---- C10 ----
\* C10: the worker owns at most one job and at most one downstream call is
\* in flight; job k+1 leaves the queue only after job k's future is
\* resolved; and each job moves through Dequeued, RateCheck, Sending, then
\* Completed or Failed, in that order.
C10_OneJobAtATime ==
    /\ [](/\ Cardinality(inflight) <= 1
          /\ Cardinality(Owned) <= 1
          /\ \A k \in Jobs :
                (k + 1 <= submitted /\ ~InQueue(k + 1)) => Resolved(k))
    /\ [][\A k \in Jobs :
            Phase(k)' # Phase(k) => <<Phase(k), Phase(k)'>> \in PhaseOrder]_vars

\* a call is in flight for the second job while a third waits in the queue
C10_Witness ==
    /\ inflight = {2}
    /\ Phase(1) = "Completed"
    /\ Phase(2) = "Sending"
    /\ Phase(3) = "Queued"

\* ---- the scenario of C12: every job is submitted at t = 0 and the fake
\* downstream answers at once, so time passes only while the worker sleeps
SubmitAtZero ==
    /\ clock = 0
    /\ Submit

ScenarioNext ==
    \/ SubmitAtZero
    \/ Dequeue
    \/ ReadClock
    \/ BackOff
    \/ Wake
    \/ Send
    \/ \E r \in Responses : Respond(r)

ScenarioSpec == Init /\ [][ScenarioNext]_vars

\* ---- C11 ----
\* C11: the enqueue step of a submission is enabled in every reachable
\* state, whatever the queue depth and wherever the worker is (the only
\* limit is the number of submissions the model makes).
C11_PutNeverBlocks ==
    submitted < MaxJobs => ENABLED Submit

\* a put is enabled while the worker is inside a downstream call and two
\* jobs are already queued behind it
C11_Witness ==
    /\ pc = "sending"
    /\ Len(llm_queue) >= 2
    /\ submitted < MaxJobs
    /\ ENABLED Submit

\* ---- C12 ----
\* C12: with a rate limit of 2 and all jobs submitted at t = 0 against an
\* instant downstream, jobs 1 and 2 are sent at t = 0 and job 3 at a time
\* between 60 and 60 + 1 seconds; it is not kept in back-off once 60 seconds
\* have passed.
C12_ThirdJobAtSixty ==
    LLM_RATE_LIMIT = 2 =>
        /\ \A i \in DOMAIN sent :
            /\ i <= 2 => sent[i].ts = 0
            /\ i = 3 => /\ sent[i].ts >= WINDOW_SECS
                        /\ sent[i].ts <= WINDOW_SECS + SLEEP_SECS
        /\ (pc = "backoff" /\ cur.args = 3) => now < WINDOW_SECS

\* the third job has been sent, at t = 60
C12_Witness ==
    /\ LLM_RATE_LIMIT = 2
    /\ Len(sent) >= 3
    /\ sent[1].ts = 0 /\ sent[2].ts = 0
    /\ sent[3].job = 3
    /\ sent[3].ts = WINDOW_SECS

\* ---- C13 ----
\* C13: a caller cancelling its await changes nothing but its future (the
\* job stays queued, a call in flight stays in flight), and a cancelled job
\* that has left the queue is the worker's current job and, once past the
\* rate check, has been sent exactly once, in its enqueue position, with its
\* timestamp as the newest entry of the window.
C13_CancelKeepsJob ==
    /\ [][\A k \in Jobs :
            (futures[k].state = "pending" /\ futures'[k].state = "cancelled")
                => /\ llm_queue' = llm_queue
                   /\ inflight' = inflight
                   /\ sent' = sent
                   /\ llm_request_timestamps' = llm_request_timestamps
                   /\ pc' = pc /\ cur' = cur]_vars
    /\ [](\A k \in Jobs :
            (futures[k].state = "cancelled" /\ ~InQueue(k)) =>
                /\ cur.args = k
                /\ \/ pc \in {"dequeued", "ratecheck", "backoff"}
                   \/ /\ SendCount(k) = 1
                      /\ \E i \in DOMAIN sent :
                            /\ sent[i].job = k
                            /\ enqueued[i] = k
                            /\ llm_request_timestamps # <<>>
                            /\ llm_request_timestamps[Len(llm_request_timestamps)]
                                   = sent[i].ts)

\* job 2 was cancelled by its caller and its downstream call is in flight
C13_Witness ==
    /\ submitted >= 2
    /\ futures[2].state = "cancelled"
    /\ pc = "sending"
    /\ inflight = {2}
    /\ SendCount(2) = 1
    /\ Resolved(1)

\* ---- C14 ----
\* C14 (as claimed): in every reachable state every timestamp in the window
\* is less than 60 seconds older than the current time.
C14_AlwaysFresh ==
    \A i \in DOMAIN llm_request_timestamps :
        clock - llm_request_timestamps[i] < WINDOW_SECS

\* C14 (amended): while the worker is in back-off, and once it has admitted
\* a send, every timestamp in the window is less than 60 seconds older than
\* the clock reading `now` the worker last took.
C14_FreshAtAdmission ==
    pc \in {"backoff", "sending"} =>
        \A i \in DOMAIN llm_request_timestamps :
            now - llm_request_timestamps[i] < WINDOW_SECS

\* a send was admitted after stale timestamps had been evicted, and the
\* window holds an older, still fresh timestamp next to the new one
C14_Witness ==
    /\ pc = "sending"
    /\ Len(llm_request_timestamps) >= 2
    /\ Len(sent) > Len(llm_request_timestamps)
    /\ llm_request_timestamps[1] < now
    /\ now - sent[1].ts >= WINDOW_SECS

C16_WindowBounded ==
    /\ Len(llm_request_timestamps) <= LLM_RATE_LIMIT
    /\ \A i, j \in DOMAIN llm_request_timestamps :
          i <= j => llm_request_timestamps[i] <= llm_request_timestamps[j]

\* the window is full again after an eviction, with distinct timestamps
C16_Witness ==
    /\ Len(llm_request_timestamps) = LLM_RATE_LIMIT
    /\ llm_request_timestamps[1] < llm_request_timestamps[LLM_RATE_LIMIT]
    /\ Len(sent) > LLM_RATE_LIMIT

\* ---- C17 ----
\* C17: the limiter as coded and the limiter as specified, run on the same
\* clock readings, take the same wait decision at every check and hold the
\* same window at all times.
C17_SameAsSpecified ==
    /\ specWindow = llm_request_timestamps
    /\ pc = "ratecheck" =>
          (SpecLimiter(specWindow, now).wait
              <=> MustWait(DecisionWindow(llm_request_timestamps, now), now))

\* both limiters kept a job waiting and admitted it 60 seconds after the
\* first send, evicting on the way
C17_Witness ==
    /\ pc = "sending"
    /\ Len(sent) = LLM_RATE_LIMIT + 1
    /\ sent[Len(sent)].ts = sent[1].ts + WINDOW_SECS
    /\ specWindow = llm_request_timestamps
    /\ Len(specWindow) < Len(sent)

\* ---- C18 ----
\* C18: the window is always the timestamps of the latest sends, failed or
\* not: a timestamp is in the window from before its call, and a failed
\* send less than 60 seconds older than the latest admission still holds
\* its slot.
C18_FailedSendKeepsSlot ==
    LET n == Len(llm_request_timestamps)
        m == Len(sent)
    IN  /\ n <= m
        /\ \A j \in 1..n : llm_request_timestamps[j] = sent[m - n + j].ts
        /\ inflight # {} => n >= 1
        /\ \A i \in DOMAIN sent :
              (responses[sent[i].job] \in Failures
                  /\ sent[m].ts - sent[i].ts < WINDOW_SECS)
                      => i > m - n

\* every send so far failed, and their timestamps fill the window: the next
\* job waits in back-off
C18_Witness ==
    /\ pc = "backoff"
    /\ Len(sent) = LLM_RATE_LIMIT
    /\ \A i \in DOMAIN sent : responses[sent[i].job] \in Failures
    /\ Len(llm_request_timestamps) = LLM_RATE_LIMIT

\* ---- C19 ----
\* C19: whenever the loop condition evaluates llm_request_timestamps[0] the
\* window is not empty, and the worker task ends only inside the handling
\* of a returned call, never in the limiter.
C19_LimiterNeverFaults ==
    /\ (pc = "ratecheck" /\ ReadsOldest(llm_request_timestamps))
           => llm_request_timestamps # <<>>
    /\ pc = "dead" =>
           /\ responses[cur.args] # "none"
           /\ futures[cur.future].state = "cancelled"

\* the loop condition is about to read the oldest timestamp of a full
\* window, and finds it stale
C19_Witness ==
    /\ pc = "ratecheck"
    /\ ReadsOldest(llm_request_timestamps)
    /\ now - llm_request_timestamps[1] >= WINDOW_SECS

\* ---- add_feedback (databases/database_connector.py, lines 62-86) ----
\* Concurrent requests call like_action for one (action_type, feedback_type)
\* pair, each in its own DatabaseConnector session, i.e. its own transaction
\* at the engine's default isolation level (read committed).  feedback_rows
\* is the committed table restricted to the pair: row i has id i and count
\* feedback_rows[i].

brokerVars == <<clock, llm_queue, llm_request_timestamps, futures, pc, cur,
                now, inflight, submitted, enqueued, sent, responses, histVars>>

\* lines 63-69: the select sees the committed rows; scalar_one_or_none
\* returns None for no row and the row for exactly one
DbSelect(s) ==
    /\ sessions[s].pc = "start"
    /\ Len(feedback_rows) <= 1
    /\ sessions' = [sessions EXCEPT ![s] =
          [pc |-> "selected",
           feedback |-> IF feedback_rows = <<>> THEN NoRow
                        ELSE [id |-> 1, count |-> feedback_rows[1]]]]
    /\ UNCHANGED <<feedback_rows, brokerVars>>

\* line 69: scalar_one_or_none raises MultipleResultsFound for two or more
\* rows; the call does not complete
DbSelectFails(s) ==
    /\ sessions[s].pc = "start"
    /\ Len(feedback_rows) >= 2
    /\ sessions' = [sessions EXCEPT ![s].pc = "failed"]
    /\ UNCHANGED <<feedback_rows, brokerVars>>

\* lines 71-77: UPDATE ... WHERE id = feedback.id SET count = feedback.count + 1,
\* with the count read by the select; it waits while another transaction
\* holds an uncommitted update of the row
DbUpdate(s) ==
    /\ sessions[s].pc = "selected"
    /\ sessions[s].feedback # NoRow
    /\ \A t \in Sessions \ {s} :
          ~(sessions[t].pc = "updated" /\ sessions[t].feedback.id = sessions[s].feedback.id)
    /\ sessions' = [sessions EXCEPT ![s].pc = "updated"]
    /\ UNCHANGED <<feedback_rows, brokerVars>>

\* lines 78-84: INSERT with count = 1 (no unique constraint on the pair)
DbInsert(s) ==
    /\ sessions[s].pc = "selected"
    /\ sessions[s].feedback = NoRow
    /\ sessions' = [sessions EXCEPT ![s].pc = "inserted"]
    /\ UNCHANGED <<feedback_rows, brokerVars>>

\* line 86: commit makes the write visible
DbCommit(s) ==
    /\ sessions[s].pc \in {"updated", "inserted"}
    /\ feedback_rows' =
          IF sessions[s].pc = "inserted"
          THEN Append(feedback_rows, 1)
          ELSE [feedback_rows EXCEPT ![sessions[s].feedback.id] =
                    sessions[s].feedback.count + 1]
    /\ sessions' = [sessions EXCEPT ![s].pc = "done"]
    /\ UNCHANGED brokerVars

DbNext ==
    \/ \E s \in Sessions : DbSelect(s)
    \/ \E s \in Sessions : DbSelectFails(s)
    \/ \E s \in Sessions : DbUpdate(s)
    \/ \E s \in Sessions : DbInsert(s)
    \/ \E s \in Sessions : DbCommit(s)

DbSpec == Init /\ [][DbNext]_vars

\* get_statistics (lines 88-98): stats[action_type][feedback_type] is the
\* count of a row of the pair (of the last one iterated; the select has no
\* ORDER BY), 0 when there is none: the values it can report
GetStatistics(rows) ==
    IF rows = <<>> THEN {0} ELSE {rows[i] : i \in DOMAIN rows}

CompletedCalls == {s \in Sessions : sessions[s].pc = "done"}

\* ---- C20 ----
\* C20 (as claimed): when no add_feedback call is under way and n calls for
\* the pair have completed, exactly one Feedback row exists for the pair
\* and get_statistics reports n.
C20_CountEqualsCalls ==
    (/\ \A s \in Sessions : sessions[s].pc \in {"start", "done", "failed"}
     /\ CompletedCalls # {})
        => /\ Len(feedback_rows) = 1
           /\ GetStatistics(feedback_rows) = {Cardinality(CompletedCalls)}

====
